---------------------------- MODULE Spec2Model ----------------------------
(***************************************************************************)
(* The block-rebuffering bridge of bevy_glicol / tui_glicol: the cpal      *)
(* output callback built by run_audio, the engine mutex it shares with the *)
(* control thread, and the control thread's patch application.             *)
(*                                                                         *)
(* Three threads: "audio" (the thread spawned by GlicolEngine::new /       *)
(* App::new, which runs the setup part of run_audio and then parks), "rt"  *)
(* (the driver's thread, which runs the output callback) and "ctl" (the    *)
(* bevy system / the TUI action loop, which applies patches).              *)
(*                                                                         *)
(* A thread's steps are cut at the accesses to the shared mutex; the code  *)
(* between two such accesses touches only state the thread owns and is one *)
(* action.                                                                 *)
(***************************************************************************)
EXTENDS Integers, Sequences, FiniteSets, TLC

\* BLOCK_SIZE is 128 in both crates; the callback is written against the
\* const generic and the model runs it with a small block.
BLOCK_SIZE == 4
\* The number of callbacks the driver makes in a run.
MaxCalls == 3
\* The patch texts the control thread may submit are 1..MaxText.
MaxText == 2
\* The actions the events send in a run of the TUI.
MaxSends == 3
\* let channels = 2_usize;
channels == 2
\* The sample rate of the device's default configuration.
DeviceSr == 44100
\* const SPECIAL: &str = include_str!("../.config/synth.txt");
SPECIAL == 1

\* The frame demands the driver may make of one callback: below, at and above
\* the block size, up to two whole blocks.
MaxFrames == 2 * BLOCK_SIZE
Threads == {"audio", "rt", "ctl"}
Sites == {"bevy", "tui"}
Texts == 1 .. MaxText
\* The graph of a freshly built engine (bevy: Engine::new(); tui: the engine
\* after the construction-time patch, applied before the engine is shared).
InitialGraph == 0

VARIABLES
    site,            \* which of the two crates is running
    engine,          \* the glicol::Engine behind the mutex
    locked,          \* the mutex is held
    guard,           \* guard[t]: thread t owns a MutexGuard of the engine
    audio_pc,        \* run_audio's position before the stream plays
    rt_pc,           \* the output callback's position
    data,            \* the callback's output buffer (interleaved slots)
    block_step,      \* data.len() / channels
    writes,          \* frames written so far in this callback
    block,           \* the block next_block returned (a borrow of the engine)
    prev_block,      \* the carry-over buffer
    prev_block_pos,  \* the carry-over cursor
    ctl_pc,          \* the control thread's position
    ctl_call,        \* the patch application it is in: [kind, code, result]
    ctl_report,      \* what the handler that last returned left of its error
    poisoned,        \* the std mutex is poisoned (a guard was dropped by a panic)
    device_report,   \* what has been reported of a device-level stream failure
    setup_calls,     \* history: how often set_sr ran and livecoding was assigned
    calls,           \* history: the number of callbacks the driver has invoked
    demanded,        \* history: the frames those callbacks were asked for, in total
    delivered,       \* history: frames handed to the device by returned callbacks
    rt_locks,        \* history: lock acquisitions made by the callback
    applied,         \* history: the graph of the last patch application that returned Ok
    raced,           \* history: some engine access was made without the guard
    stream,          \* tui App.stream: Option<cpal::Stream>, "None" or "Some"
    should_quit,     \* tui App.should_quit
    should_suspend,  \* tui App.should_suspend
    action_rx,       \* tui: the actions sent on action_tx and not yet received
    run_pc,          \* tui App::run's position in its loop
    sends,           \* history: the actions the events have sent
    handled,         \* history: the kinds of action handle_actions has handled
    delayed,         \* history: suspends served while should_quit was set
    bridges          \* the two run_audio callbacks side by side: [bevy, tui]

vars == << site, engine, locked, guard, audio_pc, rt_pc, data, block_step, writes,
           block, prev_block, prev_block_pos, ctl_pc, ctl_call, calls, demanded,
           delivered, rt_locks, applied, raced, ctl_report, poisoned, device_report,
           setup_calls, stream, should_quit, should_suspend, action_rx, run_pc, sends,
           handled, delayed, bridges >>

rtVars == << rt_pc, data, block_step, writes, block, prev_block, prev_block_pos,
             calls, demanded, delivered, rt_locks >>
ctlVars == << ctl_pc, ctl_call, applied, ctl_report >>
faultVars == << poisoned, device_report >>
appVars == << stream, should_quit, should_suspend, action_rx, run_pc, sends, handled,
             delayed >>

---------------------------------------------------------------------------
\* Samples.  A sample the engine computed is tagged with the graph that
\* computed it, the number of the block it belongs to, its index in the
\* block and its channel.

Sample(g, b, i, c) == [g |-> g, b |-> b, i |-> i, c |-> c]
\* glicol_synth::Buffer::SILENT: a buffer of zeros.
SilentSample == [g |-> -1, b |-> -1, i |-> -1, c |-> -1]
\* A slot of the driver's buffer the callback has not written.
Unwritten == [g |-> -2, b |-> -2, i |-> -2, c |-> -2]

SILENT == [i \in 0 .. BLOCK_SIZE - 1 |-> SilentSample]
NoBlock == << >>

\* glicol::Engine::next_block: one block of BLOCK_SIZE samples per channel,
\* computed from the engine's current graph; b is the number of blocks the
\* engine produced before it.
EngineBlock(g, b) ==
    [ch \in 1 .. channels |-> [i \in 0 .. BLOCK_SIZE - 1 |-> Sample(g, b, i, ch - 1)]]

\* glicol::Engine::update_with_code: Ok replaces the graph by the one the
\* text compiles to, Err leaves the engine as it was.
EngineUpdateWithCode(e, code, ok) ==
    IF ok THEN [e EXCEPT !.graph = code] ELSE e

\* T::from_sample for T = f32, the only format run_audio is instantiated with.
FromSample(x) == x


---------------------------------------------------------------------------
\* The mutex (parking_lot::Mutex in bevy_glicol, std::sync::Mutex in
\* tui_glicol) and the guards the threads own.

\* Mutex::lock returning a guard to thread t: only when the mutex is free.
Acquire(t) ==
    /\ ~locked
    /\ locked' = TRUE
    /\ guard' = [guard EXCEPT ![t] = TRUE]

\* Thread t's guard going out of scope.
Release(t) ==
    /\ locked' = FALSE
    /\ guard' = [guard EXCEPT ![t] = FALSE]

\* An access to the engine by thread t: recorded as a race when t owns no guard.
Access(t) == raced' = (raced \/ ~guard[t])

---------------------------------------------------------------------------
\* run_audio before the stream plays (the "audio" thread).

\* engine.lock() of the setup statements.  bevy_glicol locks once for
\* set_sr and once more for livecoding; tui_glicol locks once for both.
\* On a poisoned std mutex lock() takes the mutex and returns Err with the
\* guard inside; tui_glicol's `if let Ok(..)` drops it and skips both
\* assignments.  parking_lot's mutex (bevy_glicol) is never poisoned.
AudioLock ==
    /\ \/ audio_pc = "sr_lock"
       \/ site = "bevy" /\ audio_pc = "lc_lock"
    /\ IF poisoned
         THEN ~locked /\ audio_pc' = "build" /\ UNCHANGED << locked, guard >>
         ELSE /\ Acquire("audio")
              /\ audio_pc' = IF audio_pc = "sr_lock" THEN "set_sr" ELSE "set_livecoding"
    /\ UNCHANGED << site, appVars, bridges, faultVars, setup_calls, engine, rtVars, ctlVars, raced >>

\* engine.set_sr(sr)
AudioSetSr ==
    /\ audio_pc = "set_sr"
    /\ engine' = [engine EXCEPT !.sr = DeviceSr]
    /\ setup_calls' = [setup_calls EXCEPT !.set_sr = @ + 1]
    /\ Access("audio")
    /\ IF site = "bevy"
         THEN Release("audio") /\ audio_pc' = "lc_lock"
         ELSE UNCHANGED << locked, guard >> /\ audio_pc' = "set_livecoding"
    /\ UNCHANGED << site, appVars, bridges, faultVars, rtVars, ctlVars >>

\* Mutant of AudioSetLivecoding: the assignment is engine.livecoding = true.
AudioSetLivecodingOn ==
    /\ audio_pc = "set_livecoding"
    /\ engine' = [engine EXCEPT !.livecoding = TRUE]
    /\ setup_calls' = [setup_calls EXCEPT !.livecoding = @ + 1]
    /\ Access("audio")
    /\ Release("audio")
    /\ audio_pc' = "build"
    /\ UNCHANGED << site, appVars, bridges, faultVars, rtVars, ctlVars >>

\* engine.livecoding = false
AudioSetLivecoding ==
    /\ audio_pc = "set_livecoding"
    /\ engine' = [engine EXCEPT !.livecoding = FALSE]
    /\ setup_calls' = [setup_calls EXCEPT !.livecoding = @ + 1]
    /\ Access("audio")
    /\ Release("audio")
    /\ audio_pc' = "build"
    /\ UNCHANGED << site, appVars, bridges, faultVars, rtVars, ctlVars >>

\* device.build_output_stream(..)?; stream.play()?; loop { thread::park() }
AudioPlay ==
    /\ audio_pc = "build"
    /\ audio_pc' = "parked"
    /\ UNCHANGED << site, appVars, bridges, faultVars, setup_calls, engine, locked, guard, rtVars, ctlVars, raced >>

---------------------------------------------------------------------------
\* The output callback (the "rt" thread).

RECURSIVE WriteChans(_, _, _, _, _)
\* write_samples(block, sample_i, i), from channel chan on:
\*   data[sample_i * channels + chan] = T::from_sample(block[chan][i])
\* An index past the end of data panics (slice indexing is bounds-checked);
\* the slots written before it stay written.  Slot k of the code is d[k + 1].
WriteChans(d, blk, sample_i, i, chan) ==
    IF chan >= channels THEN [data |-> d, panicked |-> FALSE]
    ELSE IF chan + 1 > Len(blk) \/ sample_i * channels + chan >= Len(d)
           THEN [data |-> d, panicked |-> TRUE]
           ELSE WriteChans([d EXCEPT ![sample_i * channels + chan + 1] =
                                FromSample(blk[chan + 1][i])],
                           blk, sample_i, i, chan + 1)

write_samples(d, blk, sample_i, i) == WriteChans(d, blk, sample_i, i, 0)

RECURSIVE WriteLoop(_, _, _, _, _)
\* for i in from..to { write_samples(blk, writes, i); writes += 1; }
WriteLoop(d, blk, w, from, to) ==
    IF from >= to THEN [data |-> d, writes |-> w, panicked |-> FALSE]
    ELSE LET r == write_samples(d, blk, w, from)
         IN  IF r.panicked
               THEN [data |-> r.data, writes |-> w, panicked |-> TRUE]
               ELSE WriteLoop(r.data, blk, w + 1, from + 1, to)

\* The data lengths the driver asks for: whole frames, 1 .. MaxFrames of them.
Lens == {channels * n : n \in 1 .. MaxFrames}

\* The driver invokes the callback with a buffer of len slots:
\*   let block_step = data.len() / channels; ... let mut writes = 0;
RtCallback(len) ==
    /\ audio_pc = "parked"
    /\ rt_pc = "idle"
    /\ calls < MaxCalls
    /\ data' = [k \in 1 .. len |-> Unwritten]
    /\ block_step' = len \div channels
    /\ writes' = 0
    /\ calls' = calls + 1
    /\ demanded' = demanded + len \div channels
    /\ rt_pc' = "drain"
    /\ UNCHANGED << site, appVars, bridges, faultVars, setup_calls, engine, locked, guard, audio_pc, block, prev_block,
                    prev_block_pos, delivered, rt_locks, ctlVars, raced >>

\* Mutant of RtDrain: the statement prev_block_pos = BLOCK_SIZE after the loop
\* is missing.
RtDrainKeepCursor ==
    /\ rt_pc = "drain"
    /\ LET r == WriteLoop(data, prev_block, writes, prev_block_pos, BLOCK_SIZE)
       IN  /\ data' = r.data
           /\ writes' = r.writes
           /\ IF r.panicked
                THEN rt_pc' = "panicked" /\ UNCHANGED prev_block_pos
                ELSE rt_pc' = "while" /\ UNCHANGED prev_block_pos
    /\ UNCHANGED << site, appVars, bridges, faultVars, setup_calls, engine, locked, guard, audio_pc, block_step, block,
                    prev_block, calls, demanded, delivered, rt_locks, ctlVars, raced >>

\* The drain phase:
\*   for i in prev_block_pos..BLOCK_SIZE { write_samples(prev_block, writes, i); writes += 1; }
\*   prev_block_pos = BLOCK_SIZE;
RtDrain ==
    /\ rt_pc = "drain"
    /\ LET r == WriteLoop(data, prev_block, writes, prev_block_pos, BLOCK_SIZE)
       IN  /\ data' = r.data
           /\ writes' = r.writes
           /\ IF r.panicked
                THEN rt_pc' = "panicked" /\ UNCHANGED prev_block_pos
                ELSE rt_pc' = "while" /\ prev_block_pos' = BLOCK_SIZE
    /\ UNCHANGED << site, appVars, bridges, faultVars, setup_calls, engine, locked, guard, audio_pc, block_step, block,
                    prev_block, calls, demanded, delivered, rt_locks, ctlVars, raced >>

\* Mutant of RtLock: the loop test is writes <= block_step, so a block is
\* requested although no frame is owed.
RtLockEager ==
    /\ rt_pc = "while"
    /\ writes <= block_step
    /\ Acquire("rt")
    /\ rt_locks' = rt_locks + 1
    /\ rt_pc' = "next_block"
    /\ UNCHANGED << site, appVars, bridges, faultVars, setup_calls, engine, audio_pc, data, block_step, writes, block,
                    prev_block, prev_block_pos, calls, demanded, delivered, ctlVars, raced >>

\* Mutant of RtLock: the callback locks a mutex of its own (the engine handle
\* is not the shared one), so it does not wait for the control thread.
RtLockOwnMutex ==
    /\ rt_pc = "while"
    /\ writes < block_step
    /\ locked' = TRUE
    /\ guard' = [guard EXCEPT !["rt"] = TRUE]
    /\ rt_locks' = rt_locks + 1
    /\ rt_pc' = "next_block"
    /\ UNCHANGED << site, appVars, bridges, faultVars, setup_calls, engine, audio_pc, data, block_step, writes, block,
                    prev_block, prev_block_pos, calls, demanded, delivered, ctlVars, raced >>

\* Mutant of RtLock: a lock() that fails is skipped (`if let Ok(..) else
\* break`) and the callback returns with what it has written.
RtLockSkipOnPoison ==
    /\ rt_pc = "while"
    /\ writes < block_step
    /\ IF poisoned
         THEN ~locked /\ rt_pc' = "return" /\ UNCHANGED << locked, guard, rt_locks >>
         ELSE Acquire("rt") /\ rt_locks' = rt_locks + 1 /\ rt_pc' = "next_block"
    /\ UNCHANGED << site, appVars, bridges, faultVars, setup_calls, engine, audio_pc, data, block_step, writes,
                    block, prev_block, prev_block_pos, calls, demanded, delivered, ctlVars,
                    raced >>

\* while writes < block_step { let mut e = engine_clone.lock(); ...
\* tui_glicol: engine_clone.lock().unwrap(), which on a poisoned mutex takes
\* the mutex, panics on the Err and drops the guard in it.
RtLock ==
    /\ rt_pc = "while"
    /\ writes < block_step
    /\ IF poisoned
         THEN ~locked /\ rt_pc' = "panicked" /\ UNCHANGED << locked, guard, rt_locks >>
         ELSE Acquire("rt") /\ rt_locks' = rt_locks + 1 /\ rt_pc' = "next_block"
    /\ UNCHANGED << site, appVars, bridges, faultVars, setup_calls, engine, audio_pc, data, block_step, writes, block,
                    prev_block, prev_block_pos, calls, demanded, delivered, ctlVars, raced >>

\* while writes < block_step: the test fails and the closure's body ends.
RtLoopExit ==
    /\ rt_pc = "while"
    /\ ~(writes < block_step)
    /\ rt_pc' = "return"
    /\ UNCHANGED << site, appVars, bridges, faultVars, setup_calls, engine, locked, guard, audio_pc, data, block_step, writes,
                    block, prev_block, prev_block_pos, calls, demanded, delivered, rt_locks,
                    ctlVars, raced >>

\* Mutant of RtNextBlock: the guard is dropped as soon as next_block has
\* returned, before the block is read.
RtNextBlockDropGuard ==
    /\ rt_pc = "next_block"
    /\ block' = EngineBlock(engine.graph, engine.nblocks)
    /\ engine' = [engine EXCEPT !.nblocks = @ + 1]
    /\ Access("rt")
    /\ Release("rt")
    /\ rt_pc' = "copy"
    /\ UNCHANGED << site, appVars, bridges, faultVars, setup_calls, audio_pc, data, block_step, writes,
                    prev_block, prev_block_pos, calls, demanded, delivered, rt_locks, ctlVars >>

\* Mutant of RtNextBlock: the callback pulls its blocks from a copy of the
\* engine made at setup, which no patch reaches.
RtNextBlockOwnEngine ==
    /\ rt_pc = "next_block"
    /\ block' = EngineBlock(InitialGraph, engine.nblocks)
    /\ engine' = [engine EXCEPT !.nblocks = @ + 1]
    /\ Access("rt")
    /\ rt_pc' = "copy"
    /\ UNCHANGED << site, appVars, bridges, faultVars, setup_calls, locked, guard, audio_pc, data, block_step, writes,
                    prev_block, prev_block_pos, calls, demanded, delivered, rt_locks, ctlVars >>

\* let block = e.next_block(vec![]);
RtNextBlock ==
    /\ rt_pc = "next_block"
    /\ block' = EngineBlock(engine.graph, engine.nblocks)
    /\ engine' = [engine EXCEPT !.nblocks = @ + 1]
    /\ Access("rt")
    /\ rt_pc' = "copy"
    /\ UNCHANGED << site, appVars, bridges, faultVars, setup_calls, locked, guard, audio_pc, data, block_step, writes,
                    prev_block, prev_block_pos, calls, demanded, delivered, rt_locks, ctlVars >>

\* Mutant of CopyToPrev: the block is not copied into prev_block.
CopyToPrevNone(prev, blk) == prev

\* for (buffer, block) in prev_block.iter_mut().zip(block.iter()) { buffer.copy_from_slice(block); }
CopyToPrev(prev, blk) ==
    [ch \in 1 .. Len(prev) |-> IF ch <= Len(blk) THEN blk[ch] ELSE prev[ch]]

\* Mutant of RtCopy: the guard is taken out of the loop's scope, so a whole
\* block copied leaves it held for the next iteration.
RtCopyKeepGuard ==
    /\ rt_pc = "copy"
    /\ Access("rt")
    /\ IF writes + BLOCK_SIZE <= block_step
         THEN LET r == WriteLoop(data, block, writes, 0, BLOCK_SIZE)
              IN  /\ data' = r.data
                  /\ writes' = r.writes
                  /\ rt_pc' = IF r.panicked THEN "panicked" ELSE "while"
                  /\ UNCHANGED << prev_block, prev_block_pos, locked, guard >>
         ELSE LET e == block_step - writes
                  r == WriteLoop(data, block, writes, 0, e)
              IN  /\ data' = r.data
                  /\ writes' = r.writes
                  /\ Release("rt")
                  /\ IF r.panicked
                       THEN rt_pc' = "panicked" /\ UNCHANGED << prev_block, prev_block_pos >>
                       ELSE /\ prev_block' = CopyToPrev(prev_block, block)
                            /\ prev_block_pos' = e
                            /\ rt_pc' = "return"
    /\ block' = NoBlock
    /\ UNCHANGED << site, appVars, bridges, faultVars, setup_calls, engine, audio_pc, block_step, calls, demanded, delivered,
                    rt_locks, ctlVars >>

\* Mutant of RtCopy: the cursor is kept in samples, prev_block_pos = e * channels.
RtCopyCursorInSamples ==
    /\ rt_pc = "copy"
    /\ Access("rt")
    /\ IF writes + BLOCK_SIZE <= block_step
         THEN LET r == WriteLoop(data, block, writes, 0, BLOCK_SIZE)
              IN  /\ data' = r.data
                  /\ writes' = r.writes
                  /\ rt_pc' = IF r.panicked THEN "panicked" ELSE "while"
                  /\ UNCHANGED << prev_block, prev_block_pos >>
         ELSE LET e == block_step - writes
                  r == WriteLoop(data, block, writes, 0, e)
              IN  /\ data' = r.data
                  /\ writes' = r.writes
                  /\ IF r.panicked
                       THEN rt_pc' = "panicked" /\ UNCHANGED << prev_block, prev_block_pos >>
                       ELSE /\ prev_block' = CopyToPrev(prev_block, block)
                            /\ prev_block_pos' = e * channels
                            /\ rt_pc' = "return"
    /\ block' = NoBlock
    /\ Release("rt")
    /\ UNCHANGED << site, appVars, bridges, faultVars, setup_calls, engine, audio_pc, block_step, calls, demanded, delivered,
                    rt_locks, ctlVars >>

\* The rest of the loop body, which reads the block out of the engine, and the
\* end of the iteration (or the break), where the guard e is dropped:
\*   if writes + BLOCK_SIZE <= block_step { copy the whole block }
\*   else { copy block_step - writes frames; keep the block; prev_block_pos = e; break; }
RtCopy ==
    /\ rt_pc = "copy"
    /\ Access("rt")
    /\ IF writes + BLOCK_SIZE <= block_step
         THEN LET r == WriteLoop(data, block, writes, 0, BLOCK_SIZE)
              IN  /\ data' = r.data
                  /\ writes' = r.writes
                  /\ rt_pc' = IF r.panicked THEN "panicked" ELSE "while"
                  /\ UNCHANGED << prev_block, prev_block_pos >>
         ELSE LET e == block_step - writes
                  r == WriteLoop(data, block, writes, 0, e)
              IN  /\ data' = r.data
                  /\ writes' = r.writes
                  /\ IF r.panicked
                       THEN rt_pc' = "panicked" /\ UNCHANGED << prev_block, prev_block_pos >>
                       ELSE /\ prev_block' = CopyToPrev(prev_block, block)
                            /\ prev_block_pos' = e
                            /\ rt_pc' = "return"
    /\ block' = NoBlock
    /\ Release("rt")
    /\ UNCHANGED << site, appVars, bridges, faultVars, setup_calls, engine, audio_pc, block_step, calls, demanded, delivered,
                    rt_locks, ctlVars >>

\* The closure returns: the driver takes the buffer.
RtReturn ==
    /\ rt_pc = "return"
    /\ delivered' = delivered + writes
    /\ data' = << >>
    /\ block_step' = 0
    /\ writes' = 0
    /\ rt_pc' = "idle"
    /\ UNCHANGED << site, appVars, bridges, faultVars, setup_calls, engine, locked, guard, audio_pc, block, prev_block,
                    prev_block_pos, calls, demanded, rt_locks, ctlVars, raced >>

---------------------------------------------------------------------------
\* Patch application (the "ctl" thread).

\* The patch applications a site offers: GlicolEngine::update_with_code in
\* bevy_glicol; Action::UpdateAudioCode(code) and Action::SpecialAudio in
\* tui_glicol.
Calls ==
    IF site = "bevy"
      THEN {[kind |-> "update_with_code", code |-> c] : c \in Texts}
      ELSE {[kind |-> "UpdateAudioCode", code |-> c] : c \in Texts}
           \cup {[kind |-> "SpecialAudio", code |-> SPECIAL]}
NoCall == [kind |-> "none", code |-> 0, result |-> "none"]

\* let mut engine = self.engine.lock();   /   if let Ok(mut engine) = self.engine.lock()
\* On a poisoned mutex tui_glicol's `if let Ok(..)` skips the handler's body.
CtlLock(call) ==
    /\ ctl_pc = "idle"
    /\ IF poisoned
         THEN ~locked /\ UNCHANGED << locked, guard, ctl_pc, ctl_call, ctl_report >>
         ELSE /\ Acquire("ctl")
              /\ ctl_call' = [kind |-> call.kind, code |-> call.code, result |-> "none"]
              /\ ctl_report' = "none"
              /\ ctl_pc' = "update"
    /\ UNCHANGED << site, appVars, bridges, faultVars, setup_calls, engine, audio_pc, rtVars, applied, raced >>

\* Mutant of CtlUpdate: a patch that compiles also discards the carry-over.
CtlUpdateResetCarry(ok) ==
    /\ ctl_pc = "update"
    /\ engine' = EngineUpdateWithCode(engine, ctl_call.code, ok)
    /\ Access("ctl")
    /\ ctl_call' = [ctl_call EXCEPT !.result = IF ok THEN "ok" ELSE "err"]
    /\ ctl_pc' = "finish"
    /\ prev_block_pos' = IF ok THEN BLOCK_SIZE ELSE prev_block_pos
    /\ UNCHANGED << site, appVars, bridges, faultVars, setup_calls, locked, guard, audio_pc, rt_pc, data, block_step, writes, block,
                    prev_block, calls, demanded, delivered, rt_locks, applied, ctl_report >>

\* engine.update_with_code(code): Ok or Err, as the engine decides.
CtlUpdate(ok) ==
    /\ ctl_pc = "update"
    /\ engine' = EngineUpdateWithCode(engine, ctl_call.code, ok)
    /\ Access("ctl")
    /\ ctl_call' = [ctl_call EXCEPT !.result = IF ok THEN "ok" ELSE "err"]
    /\ ctl_pc' = "finish"
    /\ UNCHANGED << site, appVars, bridges, faultVars, setup_calls, locked, guard, audio_pc, rtVars, applied,
                    ctl_report >>

\* What a handler leaves of the outcome of engine.update_with_code.  All three
\* return (); an Ok leaves nothing.  On Err, GlicolEngine::update_with_code
\* logs it (error!), Action::SpecialAudio logs it and adds it to log_display,
\* and Action::UpdateAudioCode tests is_ok() and drops it.
HandlerReport(call) ==
    IF call.result # "err" THEN "none"
    ELSE CASE call.kind = "update_with_code" -> "logged"
           [] call.kind = "SpecialAudio" -> "displayed"
           [] call.kind = "UpdateAudioCode" -> "none"

\* Mutant of CtlFinish: the error path leaves without dropping the guard.
CtlFinishLeakOnErr ==
    /\ ctl_pc = "finish"
    /\ IF site = "tui" /\ ctl_call.result = "ok" THEN Access("ctl") ELSE UNCHANGED raced
    /\ applied' = IF ctl_call.result = "ok" THEN ctl_call.code ELSE applied
    /\ IF ctl_call.result = "ok" THEN Release("ctl") ELSE UNCHANGED << locked, guard >>
    /\ ctl_report' = HandlerReport(ctl_call)
    /\ ctl_call' = NoCall
    /\ ctl_pc' = "idle"
    /\ UNCHANGED << site, appVars, bridges, faultVars, setup_calls, engine, audio_pc, rtVars >>

\* The rest of the handler (the error is logged or dropped; tui_glicol reads
\* the node count of the engine after an Ok) and the guard going out of scope.
CtlFinish ==
    /\ ctl_pc = "finish"
    /\ IF site = "tui" /\ ctl_call.result = "ok" THEN Access("ctl") ELSE UNCHANGED raced
    /\ applied' = IF ctl_call.result = "ok" THEN ctl_call.code ELSE applied
    /\ Release("ctl")
    /\ ctl_report' = HandlerReport(ctl_call)
    /\ ctl_call' = NoCall
    /\ ctl_pc' = "idle"
    /\ UNCHANGED << site, appVars, bridges, faultVars, setup_calls, engine, audio_pc, rtVars >>

---------------------------------------------------------------------------
\* Faults of the collaborators: the engine panicking inside a call, and the
\* device failing.

\* engine.update_with_code(code) panics: the control thread unwinds and drops
\* its guard, which poisons a std mutex (tui_glicol) and merely unlocks a
\* parking_lot one (bevy_glicol).  The graph is the old or the new one.
CtlUpdatePanics ==
    /\ ctl_pc = "update"
    /\ \E ok \in BOOLEAN : engine' = EngineUpdateWithCode(engine, ctl_call.code, ok)
    /\ Access("ctl")
    /\ Release("ctl")
    /\ poisoned' = (site = "tui")
    /\ ctl_call' = [ctl_call EXCEPT !.result = "panic"]
    /\ ctl_pc' = "panicked"
    /\ UNCHANGED << site, appVars, bridges, device_report, setup_calls, audio_pc, rtVars, applied, ctl_report >>

\* device.build_output_stream(..)? or stream.play()? returns the error:
\* run_audio returns Err, the spawned closure ends with it and the JoinHandle
\* was dropped at spawn, so no one reads it.
AudioBuildFails ==
    /\ audio_pc = "build"
    /\ audio_pc' = "failed"
    /\ UNCHANGED << site, appVars, bridges, faultVars, setup_calls, engine, locked, guard, rtVars, ctlVars, raced >>

\* The stream's error callback: |err| error!("an error occurred on stream: {err}").
\* The stream is kept; the driver may go on calling the output callback.
StreamError ==
    /\ audio_pc = "parked"
    /\ rt_pc = "idle"
    /\ device_report' = "logged"
    /\ UNCHANGED << site, appVars, bridges, poisoned, setup_calls, engine, locked, guard, audio_pc, rtVars,
                    ctlVars, raced >>

---------------------------------------------------------------------------
\* The TUI application (tui_glicol's App): its run loop and handle_actions.
\* The patch actions of handle_actions are the Ctl actions above.  Tui and
\* the Home component are not among the sources: terminal calls are taken
\* to succeed and components to send no action of their own.

\* The actions an event can send: Event::Quit sends Quit, a key sends the
\* action the keymap binds to it.
UserActions == {"Quit", "Suspend", "Resume", "PlayAudio", "StopAudio"}

\* What one event sends in handle_events: nothing, the action the match or
\* the keymap gives, and after it an action a component's handle_events
\* returned (`if let Some(action) = component.handle_events(..)? { send }`).
EventSends ==
    {<< >>} \cup {<< a >> : a \in UserActions}
            \cup {<< a, c >> : a \in UserActions, c \in UserActions}

\* Mutant of setup_audio: the commented-out body is live and keeps the
\* stream it builds.
setup_audioStores(s) == "Some"

\* fn setup_audio(&mut self) -> Result<()> { /* all commented out */ Ok(()) }
setup_audio(s) == s

\* self.handle_events(&mut tui).await?: one event, which sends the actions
\* in sent.
HandleEvents(sent) ==
    /\ site = "tui"
    /\ run_pc = "events"
    /\ sends + Len(sent) <= MaxSends
    /\ action_rx' = action_rx \o sent
    /\ sends' = sends + Len(sent)
    /\ run_pc' = "actions"
    /\ UNCHANGED << site, bridges, faultVars, setup_calls, engine, locked, guard, audio_pc,
                    rtVars, ctlVars, raced, stream, should_quit, should_suspend, handled,
                    delayed >>

\* One turn of `while let Ok(action) = self.action_rx.try_recv() { match action {..} }`.
HandleAction ==
    /\ run_pc = "actions"
    /\ action_rx # << >>
    /\ LET action == Head(action_rx)
       IN  /\ action_rx' = Tail(action_rx)
           /\ should_quit' = IF action = "Quit" THEN TRUE ELSE should_quit
           /\ should_suspend' = CASE action = "Suspend" -> TRUE
                                  [] action = "Resume" -> FALSE
                                  [] OTHER -> should_suspend
           /\ stream' = CASE action = "PlayAudio" -> setup_audio(stream)
                          [] action = "StopAudio" -> "None"
                          [] OTHER -> stream
           /\ handled' = handled \cup {action}
    /\ UNCHANGED << site, bridges, faultVars, setup_calls, engine, locked, guard, audio_pc,
                    rtVars, ctlVars, raced, run_pc, sends, delayed >>

\* try_recv() finds the channel empty: handle_actions returns Ok(()).
HandleActionsDone ==
    /\ run_pc = "actions"
    /\ action_rx = << >>
    /\ run_pc' = "check"
    /\ UNCHANGED << site, bridges, faultVars, setup_calls, engine, locked, guard, audio_pc,
                    rtVars, ctlVars, raced, stream, should_quit, should_suspend, action_rx,
                    sends, handled, delayed >>

\* Mutant of RunSuspend: action_tx.send(Action::Resume)? is missing.
RunSuspendNoResume ==
    /\ run_pc = "check"
    /\ should_suspend
    /\ action_rx' = action_rx \o << "ClearScreen" >>
    /\ delayed' = IF should_quit THEN delayed + 1 ELSE delayed
    /\ run_pc' = "events"
    /\ UNCHANGED << site, bridges, faultVars, setup_calls, engine, locked, guard, audio_pc,
                    rtVars, ctlVars, raced, stream, should_quit, should_suspend, sends,
                    handled >>

\* if self.should_suspend { tui.suspend()?; action_tx.send(Action::Resume)?;
\*                          action_tx.send(Action::ClearScreen)?; tui.enter()?; }
RunSuspend ==
    /\ run_pc = "check"
    /\ should_suspend
    /\ action_rx' = action_rx \o << "Resume", "ClearScreen" >>
    /\ delayed' = IF should_quit THEN delayed + 1 ELSE delayed
    /\ run_pc' = "events"
    /\ UNCHANGED << site, bridges, faultVars, setup_calls, engine, locked, guard, audio_pc,
                    rtVars, ctlVars, raced, stream, should_quit, should_suspend, sends,
                    handled >>

\* else if self.should_quit { tui.stop()?; break; }
RunQuit ==
    /\ run_pc = "check"
    /\ ~should_suspend
    /\ should_quit
    /\ run_pc' = "exited"
    /\ UNCHANGED << site, bridges, faultVars, setup_calls, engine, locked, guard, audio_pc,
                    rtVars, ctlVars, raced, stream, should_quit, should_suspend, action_rx,
                    sends, handled, delayed >>

\* Neither flag is set: the loop goes round.
RunContinue ==
    /\ run_pc = "check"
    /\ ~should_suspend
    /\ ~should_quit
    /\ run_pc' = "events"
    /\ UNCHANGED << site, bridges, faultVars, setup_calls, engine, locked, guard, audio_pc,
                    rtVars, ctlVars, raced, stream, should_quit, should_suspend, action_rx,
                    sends, handled, delayed >>

---------------------------------------------------------------------------
\* The two output callbacks side by side, as functions of the carry-over
\* they start with, the buffer length and the blocks the engine hands out.
\* No other thread takes part, so both lock() calls succeed at once.

\* run_audio before the stream is built: let mut prev_block = [SILENT; 2];
\* let mut prev_block_pos = BLOCK_SIZE (bevy_glicol).
BevyBridgeInit ==
    [prev_block |-> [ch \in 1 .. channels |-> SILENT], prev_block_pos |-> BLOCK_SIZE,
     nblocks |-> 0, data |-> << >>, writes |-> 0, panicked |-> FALSE, calls |-> 0]

\* The same lines of tui_glicol's run_audio.
TuiBridgeInit ==
    [prev_block |-> [ch \in 1 .. channels |-> SILENT], prev_block_pos |-> BLOCK_SIZE,
     nblocks |-> 0, data |-> << >>, writes |-> 0, panicked |-> FALSE, calls |-> 0]

RECURSIVE BevyProduce(_, _, _)
\* while writes < block_step { let mut e = engine_clone.lock(); let block = e.next_block(vec![]).0;
\*   if writes + BLOCK_SIZE <= block_step { .. } else { .. prev_block_pos = e; break; } }
BevyProduce(b, bstep, g) ==
    IF b.writes >= bstep THEN b
    ELSE LET blk == EngineBlock(g, b.nblocks)
             n == [b EXCEPT !.nblocks = @ + 1]
         IN  IF b.writes + BLOCK_SIZE <= bstep
               THEN LET r == WriteLoop(b.data, blk, b.writes, 0, BLOCK_SIZE)
                    IN  IF r.panicked
                          THEN [n EXCEPT !.data = r.data, !.writes = r.writes,
                                         !.panicked = TRUE]
                          ELSE BevyProduce([n EXCEPT !.data = r.data, !.writes = r.writes],
                                            bstep, g)
               ELSE LET e == bstep - b.writes
                        r == WriteLoop(b.data, blk, b.writes, 0, e)
                    IN  IF r.panicked
                          THEN [n EXCEPT !.data = r.data, !.writes = r.writes,
                                         !.panicked = TRUE]
                          ELSE [n EXCEPT !.data = r.data, !.writes = r.writes,
                                         !.prev_block = CopyToPrev(b.prev_block, blk),
                                         !.prev_block_pos = e]

\* One whole invocation of the closure of bevy_glicol's run_audio on a buffer
\* of len slots, the engine's graph being g: block_step, writes = 0, the
\* drain loop, prev_block_pos = BLOCK_SIZE, the while loop.
BevyCallback(b, len, g) ==
    LET bstep == len \div channels
        r == WriteLoop([k \in 1 .. len |-> Unwritten], b.prev_block, 0,
                       b.prev_block_pos, BLOCK_SIZE)
        c == [b EXCEPT !.calls = @ + 1, !.data = r.data, !.writes = r.writes]
    IN  IF r.panicked
          THEN [c EXCEPT !.panicked = TRUE]
          ELSE BevyProduce([c EXCEPT !.prev_block_pos = BLOCK_SIZE], bstep, g)

RECURSIVE TuiProduce(_, _, _)
\* while writes < block_step { let mut e = engine_clone.lock().unwrap(); let block = e.next_block(vec![]).0;
\*   if writes + BLOCK_SIZE <= block_step { .. } else { .. prev_block_pos = e; break; } }
TuiProduce(b, bstep, g) ==
    IF b.writes >= bstep THEN b
    ELSE LET blk == EngineBlock(g, b.nblocks)
             n == [b EXCEPT !.nblocks = @ + 1]
         IN  IF b.writes + BLOCK_SIZE <= bstep
               THEN LET r == WriteLoop(b.data, blk, b.writes, 0, BLOCK_SIZE)
                    IN  IF r.panicked
                          THEN [n EXCEPT !.data = r.data, !.writes = r.writes,
                                         !.panicked = TRUE]
                          ELSE TuiProduce([n EXCEPT !.data = r.data, !.writes = r.writes],
                                            bstep, g)
               ELSE LET e == bstep - b.writes
                        r == WriteLoop(b.data, blk, b.writes, 0, e)
                    IN  IF r.panicked
                          THEN [n EXCEPT !.data = r.data, !.writes = r.writes,
                                         !.panicked = TRUE]
                          ELSE [n EXCEPT !.data = r.data, !.writes = r.writes,
                                         !.prev_block = CopyToPrev(b.prev_block, blk),
                                         !.prev_block_pos = e]

\* Mutant of TuiCallback: the drain loop stops at the demand
\* (`while prev_block_pos < BLOCK_SIZE && writes < block_step`), and the
\* production phase is skipped while carry-over is left.
TuiCallbackBoundedDrain(b, len, g) ==
    LET bstep == len \div channels
        end == IF b.prev_block_pos + bstep < BLOCK_SIZE THEN b.prev_block_pos + bstep
               ELSE BLOCK_SIZE
        r == WriteLoop([k \in 1 .. len |-> Unwritten], b.prev_block, 0,
                       b.prev_block_pos, end)
        c == [b EXCEPT !.calls = @ + 1, !.data = r.data, !.writes = r.writes]
    IN  IF r.panicked
          THEN [c EXCEPT !.panicked = TRUE]
          ELSE TuiProduce([c EXCEPT !.prev_block_pos = end], bstep, g)

\* One whole invocation of the closure of tui_glicol's run_audio on a buffer
\* of len slots, the engine's graph being g: block_step, writes = 0, the
\* drain loop, prev_block_pos = BLOCK_SIZE, the while loop.
TuiCallback(b, len, g) ==
    LET bstep == len \div channels
        r == WriteLoop([k \in 1 .. len |-> Unwritten], b.prev_block, 0,
                       b.prev_block_pos, BLOCK_SIZE)
        c == [b EXCEPT !.calls = @ + 1, !.data = r.data, !.writes = r.writes]
    IN  IF r.panicked
          THEN [c EXCEPT !.panicked = TRUE]
          ELSE TuiProduce([c EXCEPT !.prev_block_pos = BLOCK_SIZE], bstep, g)

\* The graphs the engine may hold when a callback runs: the initial one and
\* the one SPECIAL compiles to.
PairGraphs == {InitialGraph, SPECIAL}

\* The driver invokes both callbacks with buffers of the same length while
\* the two engines hold the same graph; a callback that panicked is not
\* invoked again.
PairCallback(len, g) ==
    /\ ~bridges.bevy.panicked \/ ~bridges.tui.panicked
    /\ bridges.bevy.calls < MaxCalls
    /\ bridges.tui.calls < MaxCalls
    /\ bridges' = [bevy |-> IF bridges.bevy.panicked THEN bridges.bevy
                            ELSE BevyCallback(bridges.bevy, len, g),
                   tui |-> IF bridges.tui.panicked THEN bridges.tui
                           ELSE TuiCallback(bridges.tui, len, g)]
    /\ UNCHANGED << site, appVars, faultVars, setup_calls, engine, locked, guard, audio_pc,
                    rtVars, ctlVars, raced >>

---------------------------------------------------------------------------
\* Mutant of Init: let mut prev_block_pos: usize = 0, so the silent buffer
\* counts as a whole block of carry-over.
InitCarryFull ==
    /\ site \in Sites
    /\ engine = [graph |-> InitialGraph, sr |-> 0, livecoding |-> TRUE, nblocks |-> 0]
    /\ locked = FALSE
    /\ guard = [t \in Threads |-> FALSE]
    /\ audio_pc = "sr_lock"
    /\ rt_pc = "idle"
    /\ data = << >>
    /\ block_step = 0
    /\ writes = 0
    /\ block = NoBlock
    /\ prev_block = [ch \in 1 .. channels |-> SILENT]
    /\ prev_block_pos = 0
    /\ ctl_pc = "idle"
    /\ ctl_call = NoCall
    /\ calls = 0
    /\ demanded = 0
    /\ delivered = 0
    /\ rt_locks = 0
    /\ applied = InitialGraph
    /\ raced = FALSE
    /\ ctl_report = "none"
    /\ poisoned = FALSE
    /\ device_report = "none"
    /\ setup_calls = [set_sr |-> 0, livecoding |-> 0]
    /\ stream = "None"
    /\ should_quit = FALSE
    /\ should_suspend = FALSE
    /\ action_rx = << >>
    /\ run_pc = "events"
    /\ sends = 0
    /\ handled = {}
    /\ delayed = 0
    /\ bridges = [bevy |-> BevyBridgeInit, tui |-> TuiBridgeInit]

Init ==
    /\ site \in Sites
    /\ engine = [graph |-> InitialGraph, sr |-> 0, livecoding |-> TRUE, nblocks |-> 0]
    /\ locked = FALSE
    /\ guard = [t \in Threads |-> FALSE]
    /\ audio_pc = "sr_lock"
    /\ rt_pc = "idle"
    /\ data = << >>
    /\ block_step = 0
    /\ writes = 0
    /\ block = NoBlock
    /\ prev_block = [ch \in 1 .. channels |-> SILENT]
    /\ prev_block_pos = BLOCK_SIZE
    /\ ctl_pc = "idle"
    /\ ctl_call = NoCall
    /\ calls = 0
    /\ demanded = 0
    /\ delivered = 0
    /\ rt_locks = 0
    /\ applied = InitialGraph
    /\ raced = FALSE
    /\ ctl_report = "none"
    /\ poisoned = FALSE
    /\ device_report = "none"
    /\ setup_calls = [set_sr |-> 0, livecoding |-> 0]
    /\ stream = "None"
    /\ should_quit = FALSE
    /\ should_suspend = FALSE
    /\ action_rx = << >>
    /\ run_pc = "events"
    /\ sends = 0
    /\ handled = {}
    /\ delayed = 0
    /\ bridges = [bevy |-> BevyBridgeInit, tui |-> TuiBridgeInit]

Next ==
    \/ AudioLock
    \/ AudioSetSr
    \/ AudioSetLivecoding
    \/ AudioPlay
    \/ \E len \in Lens : RtCallback(len)
    \/ RtDrain
    \/ RtLock
    \/ RtLoopExit
    \/ RtNextBlock
    \/ RtCopy
    \/ RtReturn
    \/ \E call \in Calls : CtlLock(call)
    \/ \E ok \in BOOLEAN : CtlUpdate(ok)
    \/ CtlFinish

Spec == Init /\ [][Next]_vars

\* The program on a device whose buffers need not hold whole stereo frames
\* (config.channels is not read: `let channels = 2; //config.channels`), so
\* data.len() may be odd.
OddLens == {channels * n + 1 : n \in 0 .. MaxFrames - 1}

NextAnyLen ==
    \/ Next
    \/ \E len \in OddLens : RtCallback(len)

SpecAnyLen == Init /\ [][NextAnyLen]_vars

\* tui_glicol's App running: the audio thread, the output callback and the
\* run loop.  (Patch actions are left to Spec.)  The driver asks for a whole
\* block or for one frame less, which leaves a carry-over.
TuiLens == {channels * (BLOCK_SIZE - 1), channels * BLOCK_SIZE}

InitTui == Init /\ site = "tui"

NextTui ==
    \/ AudioLock
    \/ AudioSetSr
    \/ AudioSetLivecoding
    \/ AudioPlay
    \/ \E len \in TuiLens : RtCallback(len)
    \/ RtDrain
    \/ RtLock
    \/ RtLoopExit
    \/ RtNextBlock
    \/ RtCopy
    \/ RtReturn
    \/ \E sent \in EventSends : HandleEvents(sent)
    \/ HandleAction
    \/ HandleActionsDone
    \/ RunSuspend
    \/ RunQuit
    \/ RunContinue

SpecTui == InitTui /\ [][NextTui]_vars

\* The two callbacks run on the same demands and the same blocks.
NextPair ==
    \E len \in Lens \cup OddLens : \E g \in PairGraphs : PairCallback(len, g)

SpecPair == Init /\ [][NextPair]_vars

\* The program with an engine that may panic inside update_with_code.
NextPoison ==
    \/ Next
    \/ CtlUpdatePanics

SpecPoison == Init /\ [][NextPoison]_vars

\* The program on a device that may fail.
NextDevice ==
    \/ Next
    \/ AudioBuildFails
    \/ StreamError

SpecDevice == Init /\ [][NextDevice]_vars

---------------------------------------------------------------------------
\* The stream the engine produces without rebuffering: frame k (from 0) of it
\* is sample k % BLOCK_SIZE of block k \div BLOCK_SIZE.
IsFrame(d, f, k) ==
    \A c \in 0 .. channels - 1 :
        /\ f * channels + c + 1 <= Len(d)
        /\ d[f * channels + c + 1].b = k \div BLOCK_SIZE
        /\ d[f * channels + c + 1].i = k % BLOCK_SIZE
        /\ d[f * channels + c + 1].c = c

Ceil(a, b) == (a + b - 1) \div b

\* Frames left in the carry-over.
CarryLeft == BLOCK_SIZE - prev_block_pos

\* C1: for every sequence of demands the frames written over all invocations,
\* concatenated, are the first sum(N_i) frames of the produced stream: every
\* callback that was invoked hands over its N frames (between callbacks, and
\* once the callback thread has stopped, every frame demanded was delivered),
\* and the buffer a callback returns holds the frames that follow those
\* delivered before it, in production order.
C1_SampleOrder ==
    /\ rt_pc \in {"idle", "panicked"} => delivered = demanded
    /\ rt_pc = "return" =>
          \A f \in 0 .. block_step - 1 : IsFrame(data, f, delivered + f)

\* C2: every invocation with a demand of N frames writes exactly N frames:
\* it never writes (or tries to write) at a frame index >= N, which is where
\* the callback panics, and it returns with N frames written.
C2_ExactFulfilment ==
    /\ rt_pc # "panicked"
    /\ rt_pc = "return" =>
          /\ writes = block_step
          /\ \A k \in 1 .. channels * block_step : data[k] # Unwritten

\* C3: when the demand N is smaller than the frames left in the carry-over,
\* the drain phase copies only N frames, advances the cursor by exactly N,
\* keeps the rest of the carry-over and calls next_block for no block.
C3_DrainStopsAtDemand ==
    [][ (rt_pc = "drain" /\ rt_pc' # "drain" /\ block_step < CarryLeft) =>
          /\ rt_pc' # "panicked"
          /\ writes' = block_step
          /\ prev_block_pos' = prev_block_pos + block_step
          /\ prev_block' = prev_block
          /\ engine'.nblocks = engine.nblocks ]_vars

\* C4: production is lazy.  Whenever no callback is running, the number of
\* next_block calls made so far is ceil(frames demanded so far / BLOCK_SIZE);
\* at no point have more blocks been produced than that; and a block is
\* requested only when the carry-over is exhausted and frames are still owed.
C4_LazyProduction ==
    /\ rt_pc \in {"idle", "return", "panicked"} =>
          engine.nblocks = Ceil(demanded, BLOCK_SIZE)
    /\ engine.nblocks <= Ceil(demanded, BLOCK_SIZE)
    /\ rt_pc = "next_block" => prev_block_pos = BLOCK_SIZE /\ writes < block_step

\* The third callback of demands summing to 6 and then 2, with blocks of 4
\* (the [3,3,2] case): it returns frames 2 and 3 of block 1, two blocks have
\* been produced and the third was never requested.
C4_Witness ==
    /\ BLOCK_SIZE = 4
    /\ rt_pc = "return"
    /\ calls = 3
    /\ delivered = 6
    /\ block_step = 2
    /\ IsFrame(data, 0, 6) /\ IsFrame(data, 1, 7)
    /\ engine.nblocks = 2
    /\ prev_block_pos = BLOCK_SIZE

\* C5: every access to the engine (patch application, sample-rate and
\* live-mode setup, block production, reading the produced block) is made by
\* a thread that owns the guard; at most one thread owns a guard at a time;
\* and a patch application is never in progress while a block is being
\* produced or copied out.
HeldBy == {t \in Threads : guard[t]}
C5_EngineAccessSerialized ==
    /\ ~raced
    /\ Cardinality(HeldBy) <= 1
    /\ locked <=> HeldBy # {}
    /\ ~(ctl_pc \in {"update", "finish"} /\ rt_pc \in {"next_block", "copy"})
    /\ ctl_pc \in {"update", "finish"} => guard["ctl"]
    /\ rt_pc \in {"next_block", "copy"} => guard["rt"]
    /\ audio_pc \in {"set_sr", "set_livecoding"} => guard["audio"]

\* A callback that still owes frames waits at the lock while a patch is being
\* applied.
C5_Witness ==
    /\ ctl_pc = "update"
    /\ rt_pc = "while"
    /\ writes < block_step
    /\ calls >= 2

\* C6: the callback acquires the lock only in the production phase, exactly
\* once per block produced, and has released it before the next block is
\* requested and before it returns; it holds no guard in the drain phase or
\* between callbacks.
C6_OneLockPerBlock ==
    /\ guard["rt"] => rt_pc \in {"next_block", "copy"}
    /\ rt_locks = engine.nblocks + (IF rt_pc = "next_block" THEN 1 ELSE 0)
    /\ rt_pc \in {"idle", "drain", "while", "return", "panicked"} =>
          ~guard["rt"] /\ block = NoBlock

\* The first callback returns having locked twice, once for each of the two
\* blocks it produced.
C6_Witness ==
    /\ rt_pc = "return"
    /\ calls = 1
    /\ rt_locks = 2
    /\ engine.nblocks = 2
    /\ ~guard["rt"]

\* C7, as claimed: the callback holds the lock only for the duration of the
\* next_block call, not while the produced block is copied.
C7_LockOnlyAroundNextBlock ==
    guard["rt"] => rt_pc = "next_block"

\* C7, amended: the callback holds the lock for one iteration of the
\* production loop: from the next_block call until the block it returned has
\* been copied into the output buffer (and, for a partial block, into the
\* carry-over).  The produced block is a borrow of the engine and exists only
\* under the guard.
C7_LockHeldThroughCopy ==
    /\ rt_pc = "copy" => guard["rt"] /\ block # NoBlock
    /\ block # NoBlock => guard["rt"] /\ rt_pc = "copy"
    /\ guard["rt"] /\ rt_pc # "copy" => rt_pc = "next_block" /\ block = NoBlock

\* A produced block waits to be copied, under the guard, while the control
\* thread is about to apply a patch.
C7_Witness ==
    /\ rt_pc = "copy"
    /\ guard["rt"]
    /\ block # NoBlock
    /\ writes + BLOCK_SIZE > block_step
    /\ ctl_pc = "idle"
    /\ applied # InitialGraph

\* C8: a step of a patch application, whatever its outcome and wherever the
\* callback stands, leaves the carry-over buffer and its cursor unchanged;
\* they change only in a step of the callback.
C8_PatchLeavesCarryOver ==
    [][ /\ ctl_pc' # ctl_pc => UNCHANGED << prev_block, prev_block_pos >>
        /\ ~(UNCHANGED << prev_block, prev_block_pos >>) =>
              rt_pc \in {"drain", "copy"} /\ rt_pc' # rt_pc /\ UNCHANGED ctlVars ]_vars

\* A patch has compiled while a callback is about to drain a partial carry-over.
C8_Witness ==
    /\ ctl_pc = "finish"
    /\ ctl_call.result = "ok"
    /\ rt_pc = "drain"
    /\ prev_block_pos \in 1 .. BLOCK_SIZE - 1

\* C9: a block whose production starts after a successful patch application
\* has returned is computed from the new graph: every block the callback
\* holds was computed from the graph of the last patch that returned Ok.
C9_NextBlockFromNewGraph ==
    rt_pc = "copy" =>
        \A ch \in 1 .. Len(block) : \A i \in 0 .. BLOCK_SIZE - 1 :
            block[ch][i].g = applied /\ block[ch][i].g = engine.graph

\* The block just produced comes from the patched graph, while the frames
\* drained from the carry-over into the same buffer come from the graph
\* before the patch.
C9_Witness ==
    /\ rt_pc = "copy"
    /\ applied # InitialGraph
    /\ block[1][0].g = applied
    /\ writes > 0
    /\ data[1].g = InitialGraph

\* C10: a patch application that fails is local: the engine (and so the
\* active graph) is as it was, the step changes nothing of the callback, the
\* handler returns with the lock released, and the graph blocks are produced
\* from stays the one of the last patch that compiled.
C10_FailedPatchIsLocal ==
    [][ /\ (ctl_pc = "update" /\ ctl_pc' = "finish" /\ ctl_call'.result = "err") =>
              engine' = engine /\ UNCHANGED rtVars
        /\ (ctl_pc = "finish" /\ ctl_pc' = "idle" /\ ctl_call.result = "err") =>
              /\ ~locked' /\ ~guard'["ctl"]
              /\ engine' = engine /\ engine.graph = applied' /\ UNCHANGED rtVars
        /\ (ctl_pc' = "idle" /\ rt_pc' = "next_block") => engine'.graph = applied' ]_vars

\* A failing patch holds the lock while a callback that owes frames waits for
\* it; the graph in effect is one an earlier patch installed.
C10_Witness ==
    /\ ctl_pc = "finish"
    /\ ctl_call.result = "err"
    /\ applied # InitialGraph
    /\ engine.graph = applied
    /\ rt_pc = "while"
    /\ writes < block_step

\* C11: a patch text that fails to compile is surfaced to the control
\* thread's caller: every patch application that ends in Err leaves an error
\* outcome when its handler returns.
C11_PatchErrorSurfaced ==
    [][ (ctl_pc = "finish" /\ ctl_call.result = "err" /\ ctl_pc' = "idle") =>
            ctl_report' # "none" ]_vars

\* C12: a device-level stream failure is not swallowed and is fatal to the
\* stream: when building or starting the stream failed something has been
\* reported of it, and once the error callback has fired no output callback
\* runs any more.
C12_DeviceFailureSurfaced ==
    /\ audio_pc = "failed" => device_report # "none"
    /\ device_report # "none" => rt_pc = "idle"

\* The steps of a callback in progress, and of a patch application in progress.
RtStep == RtDrain \/ RtLock \/ RtLoopExit \/ RtNextBlock \/ RtCopy \/ RtReturn
CtlStep == (\E ok \in BOOLEAN : CtlUpdate(ok)) \/ CtlFinish

\* C13: no thread is ever stuck.  A callback in progress can take its next
\* step unless another thread holds the engine lock, a patch application in
\* progress can take its next step, a patch application can start unless
\* another thread holds the lock, whoever holds the lock can step (so every
\* wait ends), and the callback does not hold the lock when it asks for it.
C13_NoIndefiniteBlocking ==
    /\ rt_pc # "idle" => (ENABLED RtStep) \/ (\E t \in Threads \ {"rt"} : guard[t])
    /\ ctl_pc # "idle" => ENABLED CtlStep
    /\ guard["rt"] => ENABLED RtStep
    /\ guard["ctl"] => ENABLED CtlStep
    /\ guard["audio"] => ENABLED (AudioSetSr \/ AudioSetLivecoding)
    /\ rt_pc = "while" => ~guard["rt"]

\* C14: the cursor is always within 0 .. BLOCK_SIZE, and when a callback
\* has left part of a block behind (the carry-over is not empty at its return)
\* it is strictly between 0 and BLOCK_SIZE.
C14_CursorInRange ==
    /\ prev_block_pos \in 0 .. BLOCK_SIZE
    /\ (rt_pc \in {"return", "idle"} /\ prev_block_pos # BLOCK_SIZE) =>
          (0 < prev_block_pos /\ prev_block_pos < BLOCK_SIZE)

C14_Witness ==
    /\ rt_pc = "idle"
    /\ calls >= 1
    /\ 0 < prev_block_pos
    /\ prev_block_pos < BLOCK_SIZE

\* C15: before the first callback the carry-over is empty; no sample of the
\* initial silent buffer is ever written to an output buffer; and the first
\* callback has called next_block at least once when it returns.
C15_FirstCallbackProduces ==
    /\ calls = 0 => prev_block_pos = BLOCK_SIZE
    /\ \A k \in 1 .. Len(data) : data[k] # SilentSample
    /\ (calls = 1 /\ rt_pc = "return") => (engine.nblocks >= 1 /\ rt_locks >= 1)

C15_Witness ==
    /\ calls = 1
    /\ rt_pc = "return"
    /\ writes = block_step
    /\ engine.nblocks >= 1
    /\ \A f \in 0 .. block_step - 1 : IsFrame(data, f, f)

\* C16: a callback that returns has written every slot of the buffer it was
\* given, whatever the buffer's length.
C16_BufferFilled ==
    rt_pc = "return" => \A k \in 1 .. Len(data) : data[k] # Unwritten

\* C17: set_sr and the livecoding assignment are each made at most once, and
\* from the moment the output callback can run (and so before the first
\* block) each has been made exactly once and is in effect.
C17_ConfiguredBeforeFirstBlock ==
    /\ setup_calls.set_sr <= 1
    /\ setup_calls.livecoding <= 1
    /\ (calls > 0 \/ engine.nblocks > 0 \/ audio_pc = "parked") =>
          /\ setup_calls = [set_sr |-> 1, livecoding |-> 1]
          /\ engine.sr = DeviceSr
          /\ engine.livecoding = FALSE

C17_Witness ==
    /\ engine.nblocks >= 1
    /\ applied # InitialGraph
    /\ setup_calls = [set_sr |-> 1, livecoding |-> 1]
    /\ engine.sr = DeviceSr
    /\ engine.livecoding = FALSE

\* C18: the carry-over becomes Partial only in the step that ends the
\* production phase with a partly consumed block (the cursor is then the
\* number of frames taken from that block); it becomes Empty only in the
\* drain step, which has then written the whole remainder; the cursor never
\* moves from one Partial value to another; and next_block is only reached
\* with the carry-over Empty.
C18_CarryOverTransitions ==
    [][ /\ (prev_block_pos = BLOCK_SIZE /\ prev_block_pos' # BLOCK_SIZE) =>
              /\ rt_pc = "copy" /\ rt_pc' = "return"
              /\ prev_block_pos' = block_step - writes
              /\ 0 < prev_block_pos' /\ prev_block_pos' < BLOCK_SIZE
              /\ writes' = block_step
        /\ (prev_block_pos # BLOCK_SIZE /\ prev_block_pos' = BLOCK_SIZE) =>
              /\ rt_pc = "drain" /\ rt_pc' = "while"
              /\ writes' = writes + CarryLeft
        /\ prev_block_pos' # prev_block_pos =>
              (prev_block_pos = BLOCK_SIZE \/ prev_block_pos' = BLOCK_SIZE)
        /\ (rt_pc # "next_block" /\ rt_pc' = "next_block") =>
              prev_block_pos = BLOCK_SIZE ]_vars

\* A second callback that drained what the first left and left a part of its
\* own last block.
C18_Witness ==
    /\ calls = 2
    /\ rt_pc = "return"
    /\ prev_block_pos < BLOCK_SIZE
    /\ writes > prev_block_pos
    /\ engine.nblocks = 2

\* C19: a callback that finds the engine lock poisoned when it needs a block
\* aborts there, with nothing more written and the engine untouched, and no
\* callback returns with fewer frames written than were demanded.
C19_LockFailureIsFatal ==
    [][ /\ (rt_pc = "while" /\ writes < block_step /\ poisoned /\ rt_pc' # "while") =>
              (rt_pc' = "panicked" /\ data' = data /\ engine' = engine)
        /\ rt_pc' = "return" => writes' = block_step' ]_vars

\* The lock failed with frames still owed: the carry-over was drained (a
\* panic of the drain itself leaves the cursor below BLOCK_SIZE).
C19_Witness ==
    /\ site = "tui"
    /\ poisoned
    /\ rt_pc = "panicked"
    /\ prev_block_pos = BLOCK_SIZE
    /\ writes < block_step

\* C20: when a callback has returned, the cursor is BLOCK_SIZE if the frames
\* delivered so far are a multiple of BLOCK_SIZE and that number modulo
\* BLOCK_SIZE otherwise; in the latter case prev_block is the last block the
\* engine produced, and the frames from the cursor on are all the frames
\* produced and not delivered.
C20_CursorIsDeliveredModBlock ==
    rt_pc = "idle" =>
        /\ prev_block_pos = IF delivered % BLOCK_SIZE = 0 THEN BLOCK_SIZE
                            ELSE delivered % BLOCK_SIZE
        /\ engine.nblocks * BLOCK_SIZE - delivered = CarryLeft
        /\ prev_block_pos # BLOCK_SIZE =>
              \A ch \in 1 .. channels : \A i \in 0 .. BLOCK_SIZE - 1 :
                  /\ prev_block[ch][i].b = engine.nblocks - 1
                  /\ prev_block[ch][i].i = i
                  /\ prev_block[ch][i].c = ch - 1

C20_Witness ==
    /\ rt_pc = "idle"
    /\ calls = 2
    /\ delivered > BLOCK_SIZE
    /\ delivered % BLOCK_SIZE # 0
    /\ prev_block_pos = delivered % BLOCK_SIZE
    /\ prev_block[1][prev_block_pos].b = 1

\* C21: the two run_audio callbacks are equivalent.  Invoked with the same
\* buffer lengths and given the same blocks, after every invocation they
\* have written the same buffer, made the same number of next_block calls,
\* hold the same cursor and the same carry-over, and have panicked or not
\* alike.
C21_BridgesEquivalent ==
    bridges.bevy = bridges.tui

\* Two callbacks each, the second of which drained a carry-over and left one.
C21_Witness ==
    /\ bridges.bevy.calls = 2
    /\ bridges.tui.calls = 2
    /\ ~bridges.tui.panicked
    /\ bridges.tui.nblocks = 2
    /\ bridges.tui.writes > bridges.tui.prev_block_pos
    /\ bridges.tui.prev_block_pos < BLOCK_SIZE
    /\ bridges.tui.prev_block[1][0].b = 1

\* C22: in the TUI application stream is None in every state, and the step
\* that handles a PlayAudio or a StopAudio changes nothing of the audio
\* thread, the output callback, the engine or its lock.
C22_StreamStaysNone ==
    [][ /\ stream = "None"
        /\ stream' = "None"
        /\ (/\ run_pc = "actions"
            /\ action_rx # << >>
            /\ action_rx' = Tail(action_rx)
            /\ Head(action_rx) \in {"PlayAudio", "StopAudio"}) =>
              UNCHANGED << audio_pc, rtVars, engine, locked, guard >> ]_vars

\* Both actions have been handled and the callback is at work on its second
\* buffer.
C22_Witness ==
    /\ {"PlayAudio", "StopAudio"} \subseteq handled
    /\ stream = "None"
    /\ audio_pc = "parked"
    /\ calls = 2
    /\ rt_pc = "copy"

\* C23: should_quit, once set, stays set; the loop's test at the end of an
\* iteration leaves the loop when should_quit is set and should_suspend is
\* not, and only then; with should_suspend set it serves the suspend
\* instead, whatever should_quit is, and enqueues Resume (and ClearScreen);
\* handling a Resume clears should_suspend; and the loop, once left, is not
\* entered again.
C23_QuitIsFinal ==
    [][ /\ should_quit => should_quit'
        /\ (run_pc = "check" /\ run_pc' # "check" /\ should_quit /\ ~should_suspend) =>
              run_pc' = "exited"
        /\ (run_pc = "check" /\ run_pc' # "check" /\ should_suspend) =>
              /\ run_pc' = "events"
              /\ action_rx' = action_rx \o << "Resume", "ClearScreen" >>
              /\ should_quit' = should_quit
        /\ (run_pc = "actions" /\ action_rx # << >> /\ action_rx' = Tail(action_rx)
              /\ Head(action_rx) = "Resume") => ~should_suspend'
        /\ (run_pc # "exited" /\ run_pc' = "exited") =>
              (run_pc = "check" /\ should_quit /\ ~should_suspend)
        /\ run_pc = "exited" => run_pc' = "exited" ]_vars

\* The loop was left after a suspend had been served with should_quit set.
C23_Witness ==
    /\ run_pc = "exited"
    /\ should_quit
    /\ delayed >= 1
    /\ "Resume" \in handled

============================================================================
